---- MODULE Spec2Model ----
(***************************************************************************)
(* Retrieval-and-synthesis pipeline of the wiki bot:                       *)
(*   searchNotion (scope filter, candidate cap, per-candidate flatten,     *)
(*   truncation, failure isolation), extractBlockContent (the recursive    *)
(*   block flattener) and generateAnswer (context assembly, single model   *)
(*   call, extraction of the first text segment).                          *)
(*                                                                         *)
(* Strings are sequences of UTF-16 code units; a code unit is written as a *)
(* one-character string, a non-ASCII one by an upper-case name.            *)
(***************************************************************************)
EXTENDS Integers, Sequences, FiniteSets, TLC

VARIABLES
    databaseId,   \* process.env.NOTION_DATABASE_ID: [defined, value]
    searchFails,  \* whether notion.search rejects
    results,      \* response.results of notion.search
    store,        \* block id -> children the document store holds for it
    failing,      \* block ids whose notion.blocks.children.list rejects
    reply,        \* what anthropic.messages.create answers: [throws, content]
    pc,           \* position of the request in the pipeline
    filtered,     \* searchNotion: filtered
    idx,          \* searchNotion: position of the for loop in filtered.slice(0, 5)
    pages,        \* searchNotion: pages
    errors,       \* ids logged by console.error in the catch clause
    modelCalls,   \* number of anthropic.messages.create invocations
    contextText,  \* generateAnswer: contextText
    answer,       \* value generateAnswer resolved to
    call,         \* arguments of a direct extractBlockContent call
    ret           \* outcome of that call

vars == <<databaseId, searchFails, results, store, failing, reply, pc, filtered,
          idx, pages, errors, modelCalls, contextText, answer, call, ret>>

----------------------------------------------------------------------------
(* Bounds of the explored inputs *)

MaxChildren == 2
MaxDepthArg == 4
MaxResults == 7
MaxCand == 2
MaxIdLen == 3
MaxSegments == 3

(* Program constants *)

DepthCeiling == 3
InnerCeiling == 2
BlockPageSize == 50
CandidateCap == 5
ContentCeiling == 3000

----------------------------------------------------------------------------
(* String primitives of the runtime *)

Min(a, b) == IF a < b THEN a ELSE b

Max(a, b) == IF a > b THEN a ELSE b

WhiteSpace == {" ", "\n", "\t"}

\* String.prototype.trim
trim(s) ==
    IF \A i \in 1..Len(s) : s[i] \in WhiteSpace THEN <<>>
    ELSE SubSeq(s,
           CHOOSE i \in 1..Len(s) :
               s[i] \notin WhiteSpace /\ \A j \in 1..(i - 1) : s[j] \in WhiteSpace,
           CHOOSE i \in 1..Len(s) :
               s[i] \notin WhiteSpace /\ \A j \in (i + 1)..Len(s) : s[j] \in WhiteSpace)

\* String.prototype.slice(0, n)
slice(s, n) == SubSeq(s, 1, Min(n, Len(s)))

RECURSIVE join(_, _)
\* Array.prototype.join
join(lines, sep) ==
    IF lines = <<>> THEN <<>>
    ELSE IF Len(lines) = 1 THEN lines[1]
    ELSE lines[1] \o sep \o join(Tail(lines), sep)

\* Array.prototype.filter(Boolean) on an array of strings
filterBoolean(lines) == SelectSeq(lines, LAMBDA l : l # <<>>)

Repeat(c, n) == [i \in 1..n |-> c]

----------------------------------------------------------------------------
(* notion.service: rich text and block rendering *)

extractRichText(richText) ==
    join([i \in 1..Len(richText) |-> richText[i].plain_text], <<>>)

extractPageTitle(page) ==
    LET props == page.properties
        hits == {i \in 1..Len(props) : props[i].type = "title"}
    IN  IF hits # {}
        THEN extractRichText(props[CHOOSE i \in hits : \A j \in hits : i <= j].title)
        ELSE <<"S", "i", "n", " ", "t", "I_ACUTE", "t", "u", "l", "o">>

\* the switch over b.type: the block's own line
RenderBlock(b) ==
    CASE b.type = "paragraph" -> extractRichText(b.rich_text)
      [] b.type = "heading_1" -> <<"#", " ">> \o extractRichText(b.rich_text)
      [] b.type = "heading_2" -> <<"#", "#", " ">> \o extractRichText(b.rich_text)
      [] b.type = "heading_3" -> <<"#", "#", "#", " ">> \o extractRichText(b.rich_text)
      [] b.type = "bulleted_list_item" -> <<"BULLET", " ">> \o extractRichText(b.rich_text)
      [] b.type = "numbered_list_item" -> extractRichText(b.rich_text)
      [] b.type = "to_do" ->
            <<IF b.checked THEN "CHECK" ELSE "CIRCLE", " ">> \o extractRichText(b.rich_text)
      [] b.type = "toggle" -> extractRichText(b.rich_text)
      [] b.type = "quote" -> <<">", " ">> \o extractRichText(b.rich_text)
      [] b.type = "callout" -> <<"PIN_HI", "PIN_LO", " ">> \o extractRichText(b.rich_text)
      [] b.type = "code" ->
            <<"BACKTICK", "BACKTICK", "BACKTICK">> \o b.language \o <<"\n">> \o extractRichText(b.rich_text)
                \o <<"\n", "BACKTICK", "BACKTICK", "BACKTICK">>
      [] b.type = "table_row" ->
            join([i \in 1..Len(b.cells) |-> extractRichText(b.cells[i])], <<" ", "|", " ">>)
      [] b.type = "divider" -> <<"-", "-", "-">>
      [] OTHER -> <<>>

\* as DepthExceeded, the ceiling one level late
DepthExceededLate(depth) == depth > DepthCeiling + 1

\* if (depth > 3) return the empty string
DepthExceeded(depth) == depth > DepthCeiling

\* as MayDescend, the inner ceiling one level late
MayDescendDeeper(b, depth) == b.has_children /\ depth < InnerCeiling + 1

\* if (b.has_children && depth < 2)
MayDescend(b, depth) == b.has_children /\ depth < InnerCeiling

\* notion.blocks.children.list({ block_id, page_size: 50 }).results
FetchChildren(blockId) == slice(store[blockId], BlockPageSize)

RECURSIVE extractBlockContent(_, _, _)
RECURSIVE WalkBlocks(_, _, _, _, _)
\* extractBlockContent(blockId, depth) against a store whose fetches of the
\* ids in broken reject.  The outcome records whether the call rejected, the
\* text it resolved to, the fetches it issued and the deepest depth argument
\* of any call made.
extractBlockContent(blockId, depth, broken) ==
    IF DepthExceeded(depth)
    THEN [threw |-> FALSE, text |-> <<>>, fetches |-> 0, deepest |-> depth]
    ELSE IF blockId \in broken
    THEN [threw |-> TRUE, text |-> <<>>, fetches |-> 1, deepest |-> depth]
    ELSE WalkBlocks(FetchChildren(blockId), depth, broken, <<>>,
                    [fetches |-> 1, deepest |-> depth])

\* the for loop over response.results, lines being the array built so far
WalkBlocks(blocks, depth, broken, lines, acc) ==
    IF blocks = <<>>
    THEN [threw |-> FALSE, text |-> join(filterBoolean(lines), <<"\n">>),
          fetches |-> acc.fetches, deepest |-> acc.deepest]
    ELSE LET b == Head(blocks) IN
         IF "type" \notin DOMAIN b
         THEN WalkBlocks(Tail(blocks), depth, broken, lines, acc)
         ELSE LET text == RenderBlock(b)
                  own == IF trim(text) # <<>> THEN Append(lines, text) ELSE lines
              IN  IF MayDescend(b, depth)
                  THEN LET r == extractBlockContent(b.id, depth + 1, broken)
                           seen == [fetches |-> acc.fetches + r.fetches,
                                    deepest |-> Max(acc.deepest, r.deepest)]
                       IN  IF r.threw
                           THEN [threw |-> TRUE, text |-> <<>>,
                                 fetches |-> seen.fetches, deepest |-> seen.deepest]
                           ELSE WalkBlocks(Tail(blocks), depth, broken,
                                           IF r.text # <<>> THEN Append(own, r.text) ELSE own,
                                           seen)
                  ELSE WalkBlocks(Tail(blocks), depth, broken, own, acc)

----------------------------------------------------------------------------
(* notion.service: searchNotion *)

\* as normalizeId without the g flag: only the first hyphen goes
normalizeFirst(id) ==
    IF \A i \in 1..Len(id) : id[i] # "-" THEN id
    ELSE LET k == CHOOSE i \in 1..Len(id) : id[i] = "-" /\ \A j \in 1..(i - 1) : id[j] # "-"
         IN  SubSeq(id, 1, k - 1) \o SubSeq(id, k + 1, Len(id))

\* normalizeId: id.replace(/-/g, '')
normalizeId(id) == SelectSeq(id, LAMBDA c : c # "-")

\* isFullPage of @notionhq/client: a partial page response carries no url
isFullPage(result) == "url" \in DOMAIN result

\* a value of process.env used as a condition: undefined and '' are falsy
Truthy(env) == env.defined /\ env.value # <<>>

\* the callback of response.results.filter
ScopePass(result, dbId) ==
    /\ isFullPage(result)
    /\ result.parent.type = "database_id"
    /\ normalizeId(result.parent.database_id) = normalizeId(dbId)

\* const filtered = databaseId ? response.results.filter(...) : response.results
FilterResults(res, env) ==
    IF Truthy(env) THEN SelectSeq(res, LAMBDA r : ScopePass(r, env.value)) ELSE res

\* as Candidates, one candidate more
CandidatesSix(flt) == slice(flt, CandidateCap + 1)

\* filtered.slice(0, 5)
Candidates(flt) == slice(flt, CandidateCap)

\* as Truncate, one character late
TruncateLate(content) == slice(content, ContentCeiling + 1)

\* content.slice(0, 3000)
Truncate(content) == slice(content, ContentCeiling)

\* the try block of the loop body: [threw, pages]
TryBody(result, pgs, broken) ==
    LET title == extractPageTitle(result)
        r == extractBlockContent(result.id, 0, broken)
    IN  IF r.threw THEN [threw |-> TRUE, pages |-> pgs]
        ELSE IF trim(r.text) # <<>>
        THEN [threw |-> FALSE,
              pages |-> Append(pgs, [id |-> result.id, title |-> title,
                                     url |-> result.url, content |-> Truncate(r.text)])]
        ELSE [threw |-> FALSE, pages |-> pgs]

\* as LoopBody with the try block uncaught
LoopBodyNoCatch(result, pgs, errs, broken) ==
    IF ~isFullPage(result)
    THEN [pages |-> pgs, errors |-> errs, escaped |-> FALSE]
    ELSE LET t == TryBody(result, pgs, broken)
         IN  [pages |-> t.pages, errors |-> errs, escaped |-> t.threw]

\* one iteration of for (const result of filtered.slice(0, 5)):
\* [pages, errors, escaped], escaped telling whether an exception left the loop
LoopBody(result, pgs, errs, broken) ==
    IF ~isFullPage(result)
    THEN [pages |-> pgs, errors |-> errs, escaped |-> FALSE]
    ELSE LET t == TryBody(result, pgs, broken)
         IN  IF t.threw
             THEN [pages |-> pgs, errors |-> Append(errs, result.id), escaped |-> FALSE]
             ELSE [pages |-> t.pages, errors |-> errs, escaped |-> FALSE]

----------------------------------------------------------------------------
(* claude.service: generateAnswer *)

NoInfoMessage == <<"NO_ENCONTRE_INFORMACION_RELEVANTE">>

CouldNotMessage == <<"NO_SE_PUDO_GENERAR_UNA_RESPUESTA">>

\* the text the Slack handlers say in their catch clause
HandlerErrorMessage == <<"OCURRIO_UN_ERROR_AL_PROCESAR_TU_CONSULTA">>

\* the separator of .join('\n\n---\n\n')
Divider == <<"\n", "\n", "-", "-", "-", "\n", "\n">>

Digits == <<"0", "1", "2", "3", "4", "5", "6", "7", "8", "9">>

RECURSIVE NumToStr(_)
\* template-literal conversion of a non-negative integer
NumToStr(n) == IF n < 10 THEN <<Digits[n + 1]>> ELSE NumToStr(n \div 10) \o <<Digits[(n % 10) + 1]>>

\* `[PÁGINA ${i + 1}: "${page.title}"]\nURL: ${page.url}\n\n${page.content}`, i0 = i + 1
PageSection(i0, page) ==
    <<"[", "P", "A_ACUTE", "G", "I", "N", "A", " ">> \o NumToStr(i0) \o <<":", " ", "QUOTE">>
        \o page.title \o <<"QUOTE", "]", "\n", "U", "R", "L", ":", " ">> \o page.url
        \o <<"\n", "\n">> \o page.content

BuildContext(notionPages) ==
    join([i \in 1..Len(notionPages) |-> PageSection(i, notionPages[i])], Divider)

\* as FirstText, taking the last text segment
LastText(content) ==
    LET hits == {i \in 1..Len(content) : content[i].type = "text"}
    IN  IF hits # {} THEN content[CHOOSE i \in hits : \A j \in hits : i >= j].text
        ELSE CouldNotMessage

\* response.content.find((b) => b.type === 'text'), then its text or the sentinel
FirstText(content) ==
    LET hits == {i \in 1..Len(content) : content[i].type = "text"}
    IN  IF hits # {} THEN content[CHOOSE i \in hits : \A j \in hits : i <= j].text
        ELSE CouldNotMessage

\* as generateAnswer without the early return on an empty list
generateAnswerNoGuard(notionPages, rep) ==
    LET ctx == BuildContext(notionPages)
    IN  IF rep.throws
        THEN [threw |-> TRUE, answer |-> <<>>, calls |-> 1, contextText |-> ctx]
        ELSE [threw |-> FALSE, answer |-> FirstText(rep.content), calls |-> 1,
              contextText |-> ctx]

\* generateAnswer(query, notionPages) when the model call behaves as rep:
\* [threw, answer, calls, contextText]
generateAnswer(notionPages, rep) ==
    IF Len(notionPages) = 0
    THEN [threw |-> FALSE, answer |-> NoInfoMessage, calls |-> 0, contextText |-> <<>>]
    ELSE LET ctx == BuildContext(notionPages)
         IN  IF rep.throws
             THEN [threw |-> TRUE, answer |-> <<>>, calls |-> 1, contextText |-> ctx]
             ELSE [threw |-> FALSE, answer |-> FirstText(rep.content), calls |-> 1,
                   contextText |-> ctx]

----------------------------------------------------------------------------
(* The request: searchNotion followed by generateAnswer, as the Slack      *)
(* handlers of index.ts run them                                           *)

\* searchNotion up to the loop: the search call and the scope filter
Search ==
    /\ pc = "search"
    /\ IF searchFails
       THEN /\ pc' = "failed"
            /\ answer' = HandlerErrorMessage
            /\ UNCHANGED <<filtered, idx, pages, errors>>
       ELSE /\ filtered' = FilterResults(results, databaseId)
            /\ idx' = 1
            /\ pages' = <<>>
            /\ errors' = <<>>
            /\ pc' = "loop"
            /\ UNCHANGED answer
    /\ UNCHANGED <<databaseId, searchFails, results, store, failing, reply, modelCalls,
                   contextText, call, ret>>

\* one iteration of the loop over filtered.slice(0, 5)
ProcessCandidate ==
    /\ pc = "loop"
    /\ idx <= Len(Candidates(filtered))
    /\ LET out == LoopBody(Candidates(filtered)[idx], pages, errors, failing)
       IN  /\ pages' = out.pages
           /\ errors' = out.errors
           /\ IF out.escaped
              THEN pc' = "failed" /\ answer' = HandlerErrorMessage /\ UNCHANGED idx
              ELSE pc' = "loop" /\ idx' = idx + 1 /\ UNCHANGED answer
    /\ UNCHANGED <<databaseId, searchFails, results, store, failing, reply, filtered,
                   modelCalls, contextText, call, ret>>

\* return pages
ReturnPages ==
    /\ pc = "loop"
    /\ idx > Len(Candidates(filtered))
    /\ pc' = "returned"
    /\ UNCHANGED <<databaseId, searchFails, results, store, failing, reply, filtered,
                   idx, pages, errors, modelCalls, contextText, answer, call, ret>>

\* const answer = await generateAnswer(query, notionPages)
Generate ==
    /\ pc = "returned"
    /\ LET g == generateAnswer(pages, reply)
       IN  /\ modelCalls' = modelCalls + g.calls
           /\ contextText' = g.contextText
           /\ IF g.threw
              THEN pc' = "failed" /\ answer' = HandlerErrorMessage
              ELSE pc' = "answered" /\ answer' = g.answer
    /\ UNCHANGED <<databaseId, searchFails, results, store, failing, reply, filtered,
                   idx, pages, errors, call, ret>>

Next == Search \/ ProcessCandidate \/ ReturnPages \/ Generate

----------------------------------------------------------------------------
(* Blocks, pages and stores the checks draw from *)

Span(s) == <<[plain_text |-> s]>>

Block(id, type, s, kids) ==
    [id |-> id, type |-> type, rich_text |-> Span(s), has_children |-> kids]

NoEnv == [defined |-> FALSE, value |-> <<>>]

Env(v) == [defined |-> TRUE, value |-> v]

TextReply == [throws |-> FALSE, content |-> <<[type |-> "text", text |-> <<"x">>]>>]

NoRet == [threw |-> FALSE, text |-> <<>>, fetches |-> 0, deepest |-> 0]

NoCall == [blockId |-> 0, depth |-> 0]

RECURSIVE SeqsUpTo(_, _)
\* the sequences over S of length at most n
SeqsUpTo(S, n) ==
    IF n = 0 THEN {<<>>}
    ELSE LET shorter == SeqsUpTo(S, n - 1)
         IN  shorter \cup {Append(s, x) : s \in {t \in shorter : Len(t) = n - 1}, x \in S}

Url(id) == <<"/">> \o NumToStr(id)

\* odd pages carry a title property behind another property, even pages none
PropertiesOf(id) ==
    IF id % 2 = 1
    THEN <<[type |-> "rich_text"], [type |-> "title", title |-> Span(<<"T">> \o NumToStr(id))]>>
    ELSE <<[type |-> "select"]>>

FullPage(id, parent) ==
    [object |-> "page", id |-> id, parent |-> parent, properties |-> PropertiesOf(id),
     url |-> Url(id)]

PartialPage(id) == [object |-> "page", id |-> id]

DbParent(dbId) == [type |-> "database_id", database_id |-> dbId]

PageParent == [type |-> "page_id", page_id |-> <<"p">>]

\* Page i owns the block ids i (the page), 10 + i and 20 + i (nested containers).
PageOf(c) == c % 10

LevelOf(c) == c \div 10

OwnedIds(n) == {10 * l + i : l \in 0..2, i \in 1..n}

Shapes == {"text", "blank", "nested", "mixed"}

LimitShapes == {"text", "long", "padded", "ruled"}

\* the children the store holds for block c of a page of the given shape
ChildrenOf(shape, c) ==
    LET i == PageOf(c)
        l == LevelOf(c)
    IN  CASE shape = "text" /\ l = 0 ->
                <<Block(100, "paragraph", <<"a", NumToStr(i)[1]>>, FALSE)>>
          [] shape = "blank" /\ l = 0 ->
                <<Block(100, "paragraph", <<" ", "\n">>, FALSE),
                  Block(101, "unsupported", <<"z">>, FALSE)>>
          [] shape = "nested" /\ l = 0 ->
                <<Block(100, "paragraph", <<"H", "i">>, FALSE),
                  Block(10 + i, "toggle", <<"t">>, TRUE),
                  Block(102, "heading_2", <<"e">>, FALSE)>>
          [] shape = "nested" /\ l = 1 ->
                <<Block(20 + i, "bulleted_list_item", <<"w">>, TRUE)>>
          [] shape = "nested" /\ l = 2 ->
                <<[id |-> 103, type |-> "to_do", rich_text |-> Span(<<"d">>),
                   has_children |-> FALSE, checked |-> TRUE]>>
          [] shape = "mixed" /\ l = 0 ->
                <<[object |-> "block", id |-> 104],
                  Block(105, "heading_1", <<"h">>, FALSE),
                  Block(106, "quote", <<"q">>, FALSE),
                  Block(107, "callout", <<"c">>, FALSE),
                  [id |-> 108, type |-> "code", rich_text |-> Span(<<"k">>),
                   has_children |-> FALSE, language |-> <<"t", "s">>],
                  [id |-> 109, type |-> "table_row", has_children |-> FALSE,
                   cells |-> <<Span(<<"l">>), Span(<<"r">>)>>],
                  Block(110, "numbered_list_item", <<"n">>, FALSE),
                  Block(111, "heading_3", <<>>, FALSE)>>
          [] shape = "long" /\ l = 0 ->
                <<Block(100, "paragraph", <<"a">>, FALSE),
                  Block(101, "paragraph", Repeat("x", ContentCeiling), FALSE)>>
          [] shape = "padded" /\ l = 0 ->
                <<Block(100, "paragraph", Repeat(" ", ContentCeiling) \o <<"a">>, FALSE)>>
          [] shape = "ruled" /\ l = 0 ->
                <<Block(100, "paragraph", <<"a", "\n">>, FALSE),
                  Block(101, "divider", <<>>, FALSE),
                  Block(102, "paragraph", <<"\n", "b">>, FALSE)>>
          [] OTHER -> <<>>

\* the store holding n pages, page i of shape shapeOf[i]
StoreOf(n, shapeOf) == [c \in OwnedIds(n) |-> ChildrenOf(shapeOf[PageOf(c)], c)]

\* the request has not started
Idle ==
    /\ pc = "search"
    /\ filtered = <<>>
    /\ idx = 1
    /\ pages = <<>>
    /\ errors = <<>>
    /\ modelCalls = 0
    /\ contextText = <<>>
    /\ answer = <<>>
    /\ call = NoCall
    /\ ret = NoRet

----------------------------------------------------------------------------
(* Spec: requests over search results of every mix of partial pages, pages *)
(* of the configured database and pages of another one                     *)

ScopeId == <<"a", "-", "b">>

ResultOfKind(kind, id) ==
    CASE kind = "partial" -> PartialPage(id)
      [] kind = "in" -> FullPage(id, DbParent(<<"a", "b">>))
      [] kind = "out" -> FullPage(id, DbParent(<<"b">>))

\* page ids 2, 5, .. are blank, 1, 4, .. hold one paragraph, 3, 6, .. a nested tree
ShapeById(n) ==
    [i \in 1..n |-> CASE i % 3 = 2 -> "blank" [] i % 3 = 1 -> "text" [] OTHER -> "nested"]

Init ==
    /\ databaseId \in {NoEnv, Env(ScopeId)}
    /\ searchFails = FALSE
    /\ \E n \in 0..MaxResults :
          /\ \E kinds \in [1..n -> {"partial", "in", "out"}] :
                results = [i \in 1..n |-> ResultOfKind(kinds[i], i)]
          /\ store = StoreOf(MaxResults, ShapeById(MaxResults))
    /\ failing \in {{}, {1}, {13}}
    /\ reply = TextReply
    /\ Idle

Spec == Init /\ [][Next]_vars

----------------------------------------------------------------------------
(* SpecScope: one search result against every configured scope identifier  *)

IdChars == {"a", "b", "-"}

IdStrings == SeqsUpTo(IdChars, MaxIdLen)

InitScope ==
    /\ databaseId \in {NoEnv} \cup {Env(v) : v \in IdStrings}
    /\ searchFails = FALSE
    /\ \E r \in {PartialPage(1), FullPage(1, PageParent)}
                  \cup {FullPage(1, DbParent(v)) : v \in IdStrings} :
          results = <<r>>
    /\ store = StoreOf(1, <<"text">>)
    /\ failing = {}
    /\ reply = TextReply
    /\ Idle

SpecScope == InitScope /\ [][Next]_vars

----------------------------------------------------------------------------
(* SpecContent: pages of every shape against every choice of failing block *)
(* fetches, the pages' own and the nested ones                             *)

InitContent ==
    /\ databaseId = NoEnv
    /\ searchFails = FALSE
    /\ \E n \in 1..MaxCand :
          /\ results = [i \in 1..n |-> FullPage(i, PageParent)]
          /\ \E shapeOf \in [1..n -> Shapes] : store = StoreOf(n, shapeOf)
          /\ failing \in SUBSET OwnedIds(n)
    /\ reply = TextReply
    /\ Idle

SpecContent == InitContent /\ [][Next]_vars

----------------------------------------------------------------------------
(* SpecLimits: pages whose text reaches the character ceiling, starts with *)
(* white space or carries newlines around a divider block                  *)

InitLimits ==
    /\ databaseId = NoEnv
    /\ searchFails = FALSE
    /\ \E n \in 1..MaxCand :
          /\ results = [i \in 1..n |-> FullPage(i, PageParent)]
          /\ \E shapeOf \in [1..n -> LimitShapes] : store = StoreOf(n, shapeOf)
    /\ failing = {}
    /\ reply = TextReply
    /\ Idle

SpecLimits == InitLimits /\ [][Next]_vars

----------------------------------------------------------------------------
(* SpecAnswer: every shape of model response, over empty and non-empty     *)
(* document lists                                                          *)

Segments ==
    { [type |-> "text", text |-> <<"x">>], [type |-> "text", text |-> <<>>],
      [type |-> "text", text |-> <<"y">>], [type |-> "tool_use", name |-> <<"f">>] }

Replies ==
    {[throws |-> TRUE, content |-> <<>>]}
        \cup {[throws |-> FALSE, content |-> c] : c \in SeqsUpTo(Segments, MaxSegments)}

InitAnswer ==
    /\ databaseId = NoEnv
    /\ searchFails \in BOOLEAN
    /\ \E n \in 0..2 :
          /\ results = [i \in 1..n |-> FullPage(i, PageParent)]
          /\ \E shapeOf \in [1..n -> {"text", "blank"}] : store = StoreOf(n, shapeOf)
    /\ failing = {}
    /\ reply \in Replies
    /\ Idle

SpecAnswer == InitAnswer /\ [][Next]_vars

----------------------------------------------------------------------------
(* SpecFlatten: direct calls extractBlockContent(blockId, depth) on every  *)
(* store of at most MaxChildren children per block, cyclic ones included   *)

FlattenIds == {1, 2}

\* children a block of the drawn stores may hold: leaves, and containers
\* pointing at either id, their own included
FlattenPalette ==
    { Block(9, "paragraph", <<"a">>, FALSE),
      Block(9, "paragraph", <<" ">>, FALSE),
      Block(1, "toggle", <<"t">>, TRUE),
      Block(2, "column_list", <<>>, TRUE) }

InitFlatten ==
    /\ store \in [FlattenIds -> SeqsUpTo(FlattenPalette, MaxChildren)]
    /\ failing = {}
    /\ call \in [blockId : {1}, depth : 0..MaxDepthArg]
    /\ ret = NoRet
    /\ pc = "call"
    /\ databaseId = NoEnv
    /\ searchFails = FALSE
    /\ results = <<>>
    /\ reply = TextReply
    /\ filtered = <<>>
    /\ idx = 1
    /\ pages = <<>>
    /\ errors = <<>>
    /\ modelCalls = 0
    /\ contextText = <<>>
    /\ answer = <<>>

CallFlatten ==
    /\ pc = "call"
    /\ ret' = extractBlockContent(call.blockId, call.depth, failing)
    /\ pc' = "flattened"
    /\ UNCHANGED <<databaseId, searchFails, results, store, failing, reply, filtered,
                   idx, pages, errors, modelCalls, contextText, answer, call>>

NextFlatten == CallFlatten

SpecFlatten == InitFlatten /\ [][NextFlatten]_vars

----------------------------------------------------------------------------
(* Properties *)

RECURSIVE SameModuloHyphens(_, _)
\* a and b spell the same identifier once hyphens are ignored, read off the
\* two strings character by character
SameModuloHyphens(a, b) ==
    IF a # <<>> /\ Head(a) = "-" THEN SameModuloHyphens(Tail(a), b)
    ELSE IF b # <<>> /\ Head(b) = "-" THEN SameModuloHyphens(a, Tail(b))
    ELSE IF a = <<>> \/ b = <<>> THEN a = <<>> /\ b = <<>>
    ELSE Head(a) = Head(b) /\ SameModuloHyphens(Tail(a), Tail(b))

ScopeConfigured == databaseId.defined /\ Len(databaseId.value) > 0

\* what the scope filter is to let through
InScope(r) ==
    ScopeConfigured =>
        /\ "url" \in DOMAIN r
        /\ r.parent.type = "database_id"
        /\ SameModuloHyphens(r.parent.database_id, databaseId.value)

\* the block ids a failure-free flatten of root fetches
KidsOf(c) ==
    {store[c][k].id : k \in {j \in 1..Len(store[c]) :
                                "type" \in DOMAIN store[c][j] /\ store[c][j].has_children}}

Touched(root) == {root} \cup KidsOf(root) \cup UNION {KidsOf(c) : c \in KidsOf(root)}

Fails(root) == Touched(root) \cap failing # {}

RECURSIVE ExpectedPages(_)
\* the documents of the first i results had no fetch failed, less those of
\* the candidates a failing fetch hits
ExpectedPages(i) ==
    IF i = 0 THEN <<>>
    ELSE LET res == results[i]
             clean == extractBlockContent(res.id, 0, {}).text
         IN  IF Fails(res.id) \/ trim(clean) = <<>> THEN ExpectedPages(i - 1)
             ELSE Append(ExpectedPages(i - 1),
                         [id |-> res.id, title |-> extractPageTitle(res), url |-> res.url,
                          content |-> slice(clean, 3000)])

RECURSIVE ExpectedErrors(_)
ExpectedErrors(i) ==
    IF i = 0 THEN <<>>
    ELSE IF Fails(results[i].id) THEN Append(ExpectedErrors(i - 1), results[i].id)
    ELSE ExpectedErrors(i - 1)

\* C1: no block-fetch failure escapes searchNotion; the candidates after a
\* failing one are still processed; a failing candidate contributes no
\* document and every other candidate with non-blank content contributes
\* exactly the document it contributes when nothing fails.
C1_FailureIsolation ==
    /\ pc # "failed"
    /\ pc \in {"returned", "answered"} =>
          /\ idx = Len(results) + 1
          /\ pages = ExpectedPages(Len(results))
          /\ errors = ExpectedErrors(Len(results))

\* a first candidate failing at a nested fetch, after its first line was
\* rendered, and a second candidate delivered
C1_Witness ==
    /\ pc = "returned"
    /\ Len(results) >= 2
    /\ 1 \notin failing
    /\ Fails(1)
    /\ errors = <<1>>
    /\ Len(pages) = 1
    /\ pages[1].id = 2

\* C2: with a scope identifier configured a result passes the filter iff it
\* is a full page whose parent is a database whose id equals the configured
\* one up to hyphens; with none configured every result passes.
C2_ScopeFilter ==
    pc # "search" =>
        \A i \in 1..Len(results) :
            (\E j \in 1..Len(filtered) : filtered[j] = results[i]) <=> InScope(results[i])

\* a page kept although its parent id is written with other hyphens than
\* the configured one
C2_Witness ==
    /\ pc = "loop"
    /\ ScopeConfigured
    /\ Len(filtered) = 1
    /\ filtered[1].parent.database_id # databaseId.value
    /\ \E i \in 1..Len(databaseId.value) : databaseId.value[i] = "-"

\* C3 as stated: a call with depth >= 3 returns empty text.
C3_AsStated ==
    (pc = "flattened" /\ call.depth >= 3) => ret.text = <<>>

\* C3 as amended: a call with depth > 3 returns empty text without fetching
\* anything; a call with depth 3 still fetches the block's children once.
C3_DepthCeiling ==
    pc = "flattened" =>
        /\ call.depth > 3 => (ret.text = <<>> /\ ret.fetches = 0 /\ ~ret.threw)
        /\ call.depth = 3 => ret.fetches = 1

\* a call at depth 4 on a block whose first child is a paragraph with text
C3_Witness ==
    /\ pc = "flattened"
    /\ call.depth = 4
    /\ store[call.blockId] # <<>>
    /\ store[call.blockId][1].type = "paragraph"
    /\ store[call.blockId][1].rich_text = Span(<<"a">>)
    /\ ret.text = <<>>

\* the most children any fetch of the store returns
Widest ==
    LET lens == {Len(FetchChildren(c)) : c \in DOMAIN store}
    IN  CHOOSE n \in lens : \A m \in lens : m <= n

\* C4: extractBlockContent(root, 0) ends on every store, cyclic ones
\* included: no call is made with a depth above 2, and with at most n
\* children per fetch at most 1 + n + n * n fetches are issued.
C4_BoundedRecursion ==
    (pc = "flattened" /\ call.depth = 0) =>
        /\ ret.deepest <= 2
        /\ ret.fetches <= 1 + Widest + Widest * Widest

\* a block that is its own child, twice, reaching the bound
C4_Witness ==
    /\ pc = "flattened"
    /\ call.depth = 0
    /\ Widest >= 2
    /\ \A k \in 1..Len(store[call.blockId]) :
          store[call.blockId][k].id = call.blockId /\ store[call.blockId][k].has_children
    /\ ret.fetches = 1 + Widest + Widest * Widest
    /\ ret.deepest = 2

\* C5: the content of every returned document is at most 3000 characters
\* long and is the prefix of that length (or all) of the page's flattened
\* text.
C5_Truncation ==
    \A k \in 1..Len(pages) :
        LET full == extractBlockContent(pages[k].id, 0, failing).text
        IN  /\ Len(pages[k].content) <= 3000
            /\ Len(pages[k].content) = IF Len(full) < 3000 THEN Len(full) ELSE 3000
            /\ \A i \in 1..Len(pages[k].content) : pages[k].content[i] = full[i]

\* a document of two blocks cut inside its second block
C5_Witness ==
    /\ pc = "returned"
    /\ \E k \in 1..Len(pages) :
          /\ Len(store[pages[k].id]) = 2
          /\ Len(extractBlockContent(pages[k].id, 0, failing).text) > 3000
          /\ Len(pages[k].content) = 3000
          /\ pages[k].content[1] = "a"

\* C6 as stated: the content of every returned document is non-empty once
\* trimmed.
C6_AsStated ==
    \A k \in 1..Len(pages) : trim(pages[k].content) # <<>>

\* C7: on an empty document list generateAnswer returns the fixed text and
\* never calls the model; on a non-empty one it calls the model once.
C7_ModelCalls ==
    /\ modelCalls <= 1
    /\ pc = "answered" =>
          IF pages = <<>> THEN answer = NoInfoMessage /\ modelCalls = 0
          ELSE modelCalls = 1
    /\ (pc = "failed" /\ ~searchFails) => (pages # <<>> /\ modelCalls = 1)

\* a request whose only candidate is blank: no document, no model call
C7_Witness ==
    /\ pc = "answered"
    /\ results # <<>>
    /\ pages = <<>>
    /\ modelCalls = 0
    /\ answer = NoInfoMessage

\* C8: on a non-empty list the answer is the text of the first text segment
\* of the response, the sentinel when it has none, and no shape of the
\* response makes the call fail.
C8_FirstTextSegment ==
    /\ (pc = "answered" /\ pages # <<>>) =>
          \/ \E i \in 1..Len(reply.content) :
                /\ reply.content[i].type = "text"
                /\ \A j \in 1..(i - 1) : reply.content[j].type # "text"
                /\ answer = reply.content[i].text
          \/ /\ \A i \in 1..Len(reply.content) : reply.content[i].type # "text"
             /\ answer = CouldNotMessage
    /\ pc = "failed" => (searchFails \/ reply.throws)

\* a response opening with a non-text segment and holding two different
\* text segments
C8_Witness ==
    /\ pc = "answered"
    /\ pages # <<>>
    /\ Len(reply.content) = 3
    /\ reply.content[1].type = "tool_use"
    /\ reply.content[2] = [type |-> "text", text |-> <<"y">>]
    /\ reply.content[3] = [type |-> "text", text |-> <<"x">>]
    /\ answer = <<"y">>

\* positions of results that are in scope
Passing == {i \in 1..Len(results) : InScope(results[i])}

FirstFive == {i \in Passing : Cardinality({j \in Passing : j < i}) < 5}

PositionOf(page) == CHOOSE i \in 1..Len(results) : results[i].id = page.id

\* C9: at most 5 documents are returned, each from one of the first 5
\* results in scope, none twice, in the order of the search results.
C9_CapAndOrder ==
    /\ Len(pages) <= 5
    /\ \A k \in 1..Len(pages) :
          \E i \in FirstFive : results[i].id = pages[k].id /\ results[i].url = pages[k].url
    /\ \A k \in 1..Len(pages) : \A m \in 1..Len(pages) :
          k < m => PositionOf(pages[k]) < PositionOf(pages[m])

\* six results in scope behind one out of scope, the sixth a page with
\* content, two of the first five blank: three documents, the sixth left out
C9_Witness ==
    /\ pc = "returned"
    /\ ScopeConfigured
    /\ Len(results) = 7
    /\ Passing = 2..7
    /\ failing = {}
    /\ [k \in 1..Len(pages) |-> pages[k].id] = <<3, 4, 6>>

\* the number of places of s where pat starts
Occurrences(pat, s) ==
    Cardinality({i \in 1..(Len(s) - Len(pat) + 1) :
                    s[i] = pat[1] /\ SubSeq(s, i, i + Len(pat) - 1) = pat})

\* C10 as stated: no flattened document text holds the divider that
\* generateAnswer puts between documents, which therefore occurs in the
\* context once less than there are documents.
C10_AsStated ==
    (pc = "answered" /\ pages # <<>>) =>
        /\ \A k \in 1..Len(pages) :
              Occurrences(Divider, extractBlockContent(pages[k].id, 0, failing).text) = 0
        /\ Occurrences(Divider, contextText) = Len(pages) - 1

====
